---------------------------- MODULE Spec2Model ----------------------------
(***************************************************************************)
(* Model of github.com/rhysd/abspath (src/abspath.go).                     *)
(*                                                                         *)
(* A Go string is a sequence of one-character strings.  An AbsPath is the  *)
(* record [underlying |-> string], as the struct in the source.  The host  *)
(* is a build whose filepath.Separator is '/' (path_unix.go): the          *)
(* path/filepath functions the package calls are modelled as that build    *)
(* computes them, byte by byte.  The host's working directory, the current *)
(* user's home directory and the filesystem are state; a host query may    *)
(* fail at any call.                                                       *)
(***************************************************************************)
EXTENDS Naturals, Sequences, FiniteSets

(* ------------------------------- bounds ------------------------------- *)

\* longest string handed to a constructor
MaxLen == 3

\* longest path a Join call may build (keeps the reachable values finite)
MaxPath == 5

(* ------------------------------ strings ------------------------------- *)

Chars == {"/", ".", "a"}

StrUpTo(n) == UNION {[1..k -> Chars] : k \in 0..n}

\* longer strings of the shapes the functions tell apart: "..", ".", a doubled
\* or trailing separator after a name, a "~" with more behind it
Longer == {<<".", ".", "/", "a">>, <<".", "/", "a">>, <<"a", "/", ".", ".">>,
           <<"/", "a", "/", ".", ".">>, <<"/", "a", "/", ".", "/", "a">>,
           <<"/", "a", "/", "/", "a">>, <<"/", "a", "/", "a", "/">>,
           <<"/", "a", "/", ".", ".", "/", "a">>,
           <<"~", "/", ".", "a">>, <<"~", "a", "/", "a">>, <<"~", "/", ".", ".", "/", "a">>}

\* the strings a caller passes to New, ExpandFrom, FromSlash, ExpandFromSlash
Inputs == StrUpTo(MaxLen) \cup {<<"~">> \o s : s \in StrUpTo(MaxLen - 1)} \cup Longer

\* the elements a caller passes to Join: empty, ".", "..", a name, and one
\* that begins with a separator
Elems == {<<>>, <<".">>, <<".", ".">>, <<"a">>, <<"/", "a">>}

\* the elements of the longer lists
ElemsFew == {<<>>, <<".", ".">>, <<"a">>}

\* the lists a caller passes to Join: Join tells no elements, one element and
\* more than one apart; the longer lists may begin with a separator
ElemLists ==
    {<<>>} \cup {<<e>> : e \in Elems} \cup {<<e, f>> : e \in Elems, f \in Elems}
    \cup {<<e, f, g>> : e \in ElemsFew \cup {<<"/", "a">>}, f \in ElemsFew,
                        g \in ElemsFew}

HasPrefix(s, p) == Len(s) >= Len(p) /\ SubSeq(s, 1, Len(p)) = p

\* the prefixes a caller passes to HasPrefix
Prefixes == StrUpTo(MaxLen - 1) \cup {<<"/", "a", "/">>}

(* --------------------------- path/filepath ---------------------------- *)

Separator == "/"

IsPathSeparator(c) == c = Separator

filepath_VolumeName(path) == <<>>

filepath_IsAbs(path) == HasPrefix(path, <<"/">>)

filepath_FromSlash(path) ==
    IF Separator = "/" THEN path
    ELSE [i \in 1..Len(path) |-> IF path[i] = "/" THEN Separator ELSE path[i]]

\* the ".." case of Clean: out.w--, then back to the last separator
RECURSIVE Backtrack(_, _, _)
Backtrack(out, w, dotdot) ==
    IF w > dotdot /\ ~IsPathSeparator(out[w + 1])
    THEN Backtrack(out, w - 1, dotdot)
    ELSE SubSeq(out, 1, w)

\* the end of the path element that starts at r: the first separator after it
RECURSIVE ElemEnd(_, _)
ElemEnd(path, r) ==
    IF r <= Len(path) /\ ~IsPathSeparator(path[r]) THEN ElemEnd(path, r + 1) ELSE r

\* the loop of Clean; r is the next byte to read, out the bytes written
RECURSIVE CleanLoop(_, _, _, _, _)
CleanLoop(path, r, out, dotdot, rooted) ==
    LET n == Len(path) IN
    IF r > n THEN out
    ELSE IF IsPathSeparator(path[r])
    THEN CleanLoop(path, r + 1, out, dotdot, rooted)
    ELSE IF path[r] = "." /\ (r = n \/ IsPathSeparator(path[r + 1]))
    THEN CleanLoop(path, r + 1, out, dotdot, rooted)
    ELSE IF path[r] = "." /\ path[r + 1] = "."
            /\ (r + 1 = n \/ IsPathSeparator(path[r + 2]))
    THEN IF Len(out) > dotdot
         THEN CleanLoop(path, r + 2, Backtrack(out, Len(out) - 1, dotdot),
                        dotdot, rooted)
         ELSE IF ~rooted
         THEN LET o2 == (IF Len(out) > 0 THEN Append(out, Separator) ELSE out)
                        \o <<".", ".">>
              IN CleanLoop(path, r + 2, o2, Len(o2), rooted)
         ELSE CleanLoop(path, r + 2, out, dotdot, rooted)
    ELSE LET o1 == IF (rooted /\ Len(out) # 1) \/ (~rooted /\ Len(out) # 0)
                   THEN Append(out, Separator) ELSE out
             e  == ElemEnd(path, r)
         IN CleanLoop(path, e, o1 \o SubSeq(path, r, e - 1), dotdot, rooted)

filepath_Clean(path) ==
    IF path = <<>> THEN <<".">>
    ELSE LET rooted == IsPathSeparator(path[1])
             out == IF rooted
                    THEN CleanLoop(path, 2, <<Separator>>, 1, TRUE)
                    ELSE CleanLoop(path, 1, <<>>, 0, FALSE)
         IN filepath_FromSlash(IF out = <<>> THEN <<".">> ELSE out)

\* strings.Join(elem, Separator)
RECURSIVE StringsJoin(_)
StringsJoin(elem) ==
    IF elem = <<>> THEN <<>>
    ELSE IF Len(elem) = 1 THEN elem[1]
    ELSE elem[1] \o <<Separator>> \o StringsJoin(Tail(elem))

\* filepath.Join: the first non-empty element onwards, joined and cleaned
RECURSIVE filepath_Join(_)
filepath_Join(elem) ==
    IF elem = <<>> THEN <<>>
    ELSE IF elem[1] # <<>> THEN filepath_Clean(StringsJoin(elem))
    ELSE filepath_Join(Tail(elem))

\* index of the last separator of path at or before i, 0 when there is none
RECURSIVE LastSep(_, _)
LastSep(path, i) ==
    IF i >= 1 /\ ~IsPathSeparator(path[i]) THEN LastSep(path, i - 1) ELSE i

filepath_Dir(path) ==
    filepath_VolumeName(path) \o filepath_Clean(SubSeq(path, 1, LastSep(path, Len(path))))

RECURSIVE StripTrailing(_)
StripTrailing(path) ==
    IF Len(path) > 0 /\ IsPathSeparator(path[Len(path)])
    THEN StripTrailing(SubSeq(path, 1, Len(path) - 1))
    ELSE path

filepath_Base(path) ==
    IF path = <<>> THEN <<".">>
    ELSE LET p == StripTrailing(path)
             q == SubSeq(p, LastSep(p, Len(p)) + 1, Len(p))
         IN IF q = <<>> THEN <<Separator>> ELSE q

\* filepath.Split: <<dir, file>>, dir keeps its trailing separator
filepath_Split(path) ==
    LET i == LastSep(path, Len(path))
    IN <<SubSeq(path, 1, i), SubSeq(path, i + 1, Len(path))>>

\* filepath.ToSlash: the separators replaced by "/"
filepath_ToSlash(path) ==
    IF Separator = "/" THEN path
    ELSE [i \in 1..Len(path) |-> IF path[i] = Separator THEN "/" ELSE path[i]]

\* filepath.Ext: from the last "." of the last element on; i runs backwards
RECURSIVE ExtFrom(_, _)
ExtFrom(path, i) ==
    IF i < 1 \/ IsPathSeparator(path[i]) THEN <<>>
    ELSE IF path[i] = "." THEN SubSeq(path, i, Len(path))
    ELSE ExtFrom(path, i - 1)

filepath_Ext(path) == ExtFrom(path, Len(path))

\* filepath.HasPrefix: where the separator is "/" it is strings.HasPrefix
filepath_HasPrefix(p, prefix) == HasPrefix(p, prefix)

(* ------------------------------- values ------------------------------- *)

\* type AbsPath struct { underlying string }
AbsPath(s) == [underlying |-> s]

\* a == b on two AbsPath values: Go compares the structs field by field
Equal(a, b) == a.underlying = b.underlying

\* error values; the Go nil error is the kind "nil"
nil == [kind |-> "nil", specified |-> <<>>]

\* &NotAbsolutePathError{specified}
NotAbsolutePathError(specified) ==
    [kind |-> "NotAbsolutePathError", specified |-> specified]

\* the empty path refused the way New refuses it
EmptyAsNotAbsolute == NotAbsolutePathError(<<>>)

\* fmt.Errorf("Empty path cannot be expanded")
EmptyPathError == [kind |-> "errorString", specified |-> <<>>]

\* the error a failed host query hands back
HostError(query) == [kind |-> query, specified |-> <<>>]

\* func (err *NotAbsolutePathError) Error() string, and the other errors' texts
Error(err) ==
    IF err.kind = "NotAbsolutePathError"
    THEN <<"Not an absolute path: ">> \o err.specified
    ELSE IF err.kind = "errorString" THEN <<"Empty path cannot be expanded">>
    ELSE <<err.kind>>

(* --------------------------- the host's state -------------------------- *)

\* the directories the process can be in, as os.Getwd reports them
Dirs == {<<"/">>, <<"/", "a">>}

\* what os.Getwd() returns, <<dir, err>>: a directory, or an error (the
\* directory was removed under the process)
GetwdAnswers == {<<d, nil>> : d \in Dirs} \cup {<<<<>>, HostError("os.Getwd")>>}

\* what user.Current() returns, <<u.HomeDir, err>>; the answer is looked up
\* once per process
CurrentAnswers == {<<<<"/", "a">>, nil>>, <<<<>>, HostError("user.Current")>>}

\* the filesystem: the root is a directory; below it the entries at FsPaths.
\* An entry is a file, a directory, a directory without permissions
\* ("locked": nothing can be looked up in it or read from it), a symbolic
\* link with its target, or missing ("none")
FsPaths == {<<"/", "a">>, <<"/", "a", "/", "a">>}

Node(kind, target) == [kind |-> kind, target |-> target]

NoNode == Node("none", <<>>)

\* what a symbolic link may point at: the root, an entry by its absolute and
\* by its relative name, the parent directory, a name that is never there
LinkTargets == {<<"/">>, <<"/", "a">>, <<"a">>, <<".", ".">>, <<"/", ".", "a">>}

Nodes ==
    {NoNode, Node("file", <<>>), Node("dir", <<>>), Node("locked", <<>>)}
    \cup {Node("link", t) : t \in LinkTargets}

\* an entry has a directory above it
FileSystems ==
    {f \in [FsPaths -> Nodes] :
        f[<<"/", "a">>].kind \notin {"dir", "locked"} =>
            f[<<"/", "a", "/", "a">>] = NoNode}

\* the filesystem of a host where nothing but the directories of Dirs exists
PlainFs ==
    [p \in FsPaths |-> IF p \in Dirs THEN Node("dir", <<>>) ELSE NoNode]

(* ------------------------- the host's file system --------------------- *)

\* how many symbolic links the host follows in one lookup before it gives up
\* with ELOOP.  A host stops at 40; among the entries of FsPaths a lookup that
\* ends follows far fewer, so a lookup is stopped here exactly when it is there
MaxSymlinks == 8

\* the stretches of path between its separators, empty ones included
RECURSIVE Components(_)
Components(path) ==
    LET e == ElemEnd(path, 1)
    IN IF e > Len(path) THEN <<path>>
       ELSE <<SubSeq(path, 1, e - 1)>> \o Components(SubSeq(path, e + 1, Len(path)))

\* the entry at the resolved path p
NodeAt(f, p) ==
    IF p = <<Separator>> THEN Node("dir", <<>>)
    ELSE IF p \in FsPaths THEN f[p] ELSE NoNode

\* the path of the entry name in the directory d
Child(d, name) ==
    IF d = <<Separator>> THEN d \o name ELSE d \o <<Separator>> \o name

\* what a lookup ends in: an errno, or the entry found and where it is
Failed(errno) == [err |-> errno, path |-> <<>>, node |-> NoNode]

Found(p, node) == [err |-> "", path |-> p, node |-> node]

\* the host's path lookup, from the directory d through the components
\* comps: "." and empty components stay, ".." goes up, a name is looked up
\* in d; a symbolic link is followed (unless it is the last component and
\* follow is off) from the directory it is in, or from the root when its
\* target is absolute; n counts the links that may still be followed
RECURSIVE Namei(_, _, _, _, _)
Namei(f, d, comps, follow, n) ==
    IF comps = <<>> THEN Found(d, NodeAt(f, d))
    ELSE LET h == Head(comps)
             rest == Tail(comps)
         IN IF h = <<>> THEN Namei(f, d, rest, follow, n)
            ELSE IF NodeAt(f, d).kind = "locked" THEN Failed("EACCES")
            ELSE IF h = <<".">> THEN Namei(f, d, rest, follow, n)
            ELSE IF h = <<".", ".">>
            THEN Namei(f, filepath_Dir(d), rest, follow, n)
            ELSE LET p == Child(d, h)
                     node == NodeAt(f, p)
                 IN IF node.kind = "none" THEN Failed("ENOENT")
                    ELSE IF node.kind = "file"
                    THEN IF rest = <<>> THEN Found(p, node) ELSE Failed("ENOTDIR")
                    ELSE IF node.kind = "link"
                    THEN IF rest = <<>> /\ ~follow THEN Found(p, node)
                         ELSE IF n = 0 THEN Failed("ELOOP")
                         ELSE Namei(f,
                                    IF filepath_IsAbs(node.target)
                                    THEN <<Separator>> ELSE d,
                                    Components(node.target) \o rest, follow, n - 1)
                    ELSE Namei(f, p, rest, follow, n)

\* the lookup of the path name by a process whose working directory os.Getwd
\* reports as getwd: the empty path is not found; a relative one starts at
\* the working directory, and finds nothing when that directory is gone
Lookup(f, getwd, name, follow) ==
    IF name = <<>> THEN Failed("ENOENT")
    ELSE IF filepath_IsAbs(name)
    THEN Namei(f, <<Separator>>, Components(name), follow, MaxSymlinks)
    ELSE IF getwd[2] # nil THEN Failed("ENOENT")
    ELSE Namei(f, getwd[1], Components(name), follow, MaxSymlinks)

\* os.Stat(name) and os.Lstat(name): <<info, err>>; info is the entry
os_Stat(f, getwd, name) ==
    LET r == Lookup(f, getwd, name, TRUE)
    IN IF r.err # "" THEN <<NoNode, HostError(r.err)>> ELSE <<r.node, nil>>

os_Lstat(f, getwd, name) ==
    LET r == Lookup(f, getwd, name, FALSE)
    IN IF r.err # "" THEN <<NoNode, HostError(r.err)>> ELSE <<r.node, nil>>

\* FileInfo.IsDir()
FileInfo_IsDir(info) == info.kind \in {"dir", "locked"}

\* how many symbolic links filepath.EvalSymlinks walks before it gives up.
\* The library stops at 255; among the entries of FsPaths a walk that ends
\* takes far fewer, so a walk is stopped here exactly when it is there
MaxLinksWalked == 8

\* the first index of path at or after i that holds no separator
RECURSIVE SkipSeparators(_, _)
SkipSeparators(path, i) ==
    IF i <= Len(path) /\ IsPathSeparator(path[i])
    THEN SkipSeparators(path, i + 1) ELSE i

\* the state of the loop of filepath.EvalSymlinks (walkSymlinks): start is
\* the next byte of path to read, dest the resolved path so far, volLen the
\* length of the leading separator (1 for a rooted path, else 0), links the
\* links walked; or, when the loop has ended, what it returns
Walking(path, start, dest, volLen, links) ==
    [done |-> FALSE, path |-> path, start |-> start, dest |-> dest,
     volLen |-> volLen, links |-> links, res |-> <<>>, err |-> nil]

Walked(res, err) ==
    [done |-> TRUE, path |-> <<>>, start |-> 0, dest |-> <<>>, volLen |-> 0,
     links |-> 0, res |-> res, err |-> err]

\* the turn for a component that names an entry: e is where the component
\* ends in w.path, d1 the resolved path with the component added, and fi what
\* os.Lstat(d1) returned
WalkEntry(w, e, d1, fi) ==
    LET r1 == LastSep(d1, Len(d1))
        link == fi[1].target
        path2 == link \o SubSeq(w.path, e, Len(w.path))
    IN IF fi[2] # nil THEN Walked(<<>>, fi[2])
       ELSE IF fi[1].kind # "link"
       THEN IF ~FileInfo_IsDir(fi[1]) /\ e <= Len(w.path)
            THEN Walked(<<>>, HostError("ENOTDIR"))
            ELSE Walking(w.path, e, d1, w.volLen, w.links)
       ELSE IF w.links + 1 > MaxLinksWalked
       THEN Walked(<<>>, HostError("EvalSymlinks: too many links"))
       ELSE IF filepath_IsAbs(link)
       THEN Walking(path2, 2, <<Separator>>, 1, w.links + 1)
       ELSE Walking(path2, 1,
                    IF r1 > w.volLen THEN SubSeq(d1, 1, r1 - 1)
                    ELSE SubSeq(d1, 1, w.volLen),
                    w.volLen, w.links + 1)

\* one turn of the loop
WalkStep(f, getwd, w) ==
    LET path == w.path
        dest == w.dest
        volLen == w.volLen
        s == SkipSeparators(path, w.start)
        e == ElemEnd(path, s)
        comp == SubSeq(path, s, e - 1)
        r == LastSep(dest, Len(dest))
        d1 == (IF Len(dest) > 0 /\ ~IsPathSeparator(dest[Len(dest)])
               THEN Append(dest, Separator) ELSE dest) \o comp
    IN IF s > Len(path) THEN Walked(filepath_Clean(dest), nil)
       ELSE IF comp = <<".">> THEN Walking(path, e, dest, volLen, w.links)
       ELSE IF comp = <<".", ".">>
       THEN IF r <= volLen \/ SubSeq(dest, r + 1, Len(dest)) = <<".", ".">>
            THEN Walking(path, e,
                         (IF Len(dest) > volLen
                          THEN Append(dest, Separator) ELSE dest)
                         \o <<".", ".">>,
                         volLen, w.links)
            ELSE Walking(path, e, SubSeq(dest, 1, r - 1), volLen, w.links)
       ELSE WalkEntry(w, e, d1, os_Lstat(f, getwd, d1))

\* the loop: turns are taken until it has ended.  The state after a turn is
\* bound as the one element of a set, so that it is computed once
RECURSIVE WalkSymlinks(_, _, _)
WalkSymlinks(f, getwd, w) ==
    IF w.done THEN <<w.res, w.err>>
    ELSE CHOOSE result \in {WalkSymlinks(f, getwd, next) :
                               next \in {WalkStep(f, getwd, w)}} : TRUE

\* filepath.EvalSymlinks(path): <<resolved, err>>
filepath_EvalSymlinks(f, getwd, path) ==
    LET volLen == IF path # <<>> /\ IsPathSeparator(path[1]) THEN 1 ELSE 0
    IN WalkSymlinks(f, getwd,
                    Walking(path, volLen + 1, SubSeq(path, 1, volLen), volLen, 0))

(* ----------------- path/filepath functions with errors ------------------ *)

\* the error filepath.Rel returns
RelError == [kind |-> "Rel: can't make relative", specified |-> <<>>]

\* the loop of filepath.Rel: base[b0..bi) and targ[t0..ti) are moved to the
\* first elements that differ (indices count from 1; bi and ti are the next
\* bytes to read); the result is <<b0, bi, t0>>
RECURSIVE RelLoop(_, _, _, _, _, _)
RelLoop(base, targ, b0, bi, t0, ti) ==
    IF bi <= Len(base) /\ ti <= Len(targ)
    THEN LET be == ElemEnd(base, bi)
             te == ElemEnd(targ, ti)
         IN IF SubSeq(targ, t0, te - 1) # SubSeq(base, b0, be - 1)
            THEN <<b0, be, t0>>
            ELSE LET bn == IF be <= Len(base) THEN be + 1 ELSE be
                     tn == IF te <= Len(targ) THEN te + 1 ELSE te
                 IN RelLoop(base, targ, bn, bn, tn, tn)
    ELSE <<b0, bi, t0>>

\* ".." once for each of the n + 1 elements left of the base
RECURSIVE DotDots(_)
DotDots(n) ==
    IF n = 0 THEN <<".", ".">> ELSE <<".", ".", Separator>> \o DotDots(n - 1)

\* filepath.Rel(basepath, targpath): <<rel, err>>
filepath_Rel(basepath, targpath) ==
    LET cleaned == filepath_Clean(basepath)
        targ == filepath_Clean(targpath)
        base == IF cleaned = <<".">> THEN <<>> ELSE cleaned
        baseSlashed == Len(base) > 0 /\ base[1] = Separator
        targSlashed == Len(targ) > 0 /\ targ[1] = Separator
        at == RelLoop(base, targ, 1, 1, 1, 1)
        left == SubSeq(base, at[1], Len(base))
        seps == Cardinality({i \in 1..Len(left) : left[i] = Separator})
    IN IF targ = cleaned THEN <<<<".">>, nil>>
       ELSE IF baseSlashed # targSlashed THEN <<<<>>, RelError>>
       ELSE IF SubSeq(base, at[1], at[2] - 1) = <<".", ".">>
       THEN <<<<>>, RelError>>
       ELSE IF at[1] # Len(base) + 1
       THEN <<DotDots(seps)
              \o (IF at[3] # Len(targ) + 1
                  THEN <<Separator>> \o SubSeq(targ, at[3], Len(targ))
                  ELSE <<>>),
              nil>>
       ELSE <<SubSeq(targ, at[3], Len(targ)), nil>>

\* filepath.Match, for patterns of "*", "?" and plain characters.
\* scanChunk: <<star, chunk, rest>>, the stars in front taken off and the
\* chunk up to the next star
RECURSIVE SkipStars(_)
SkipStars(pattern) ==
    IF pattern # <<>> /\ Head(pattern) = "*" THEN SkipStars(Tail(pattern))
    ELSE pattern

RECURSIVE ChunkEnd(_, _)
ChunkEnd(pattern, i) ==
    IF i <= Len(pattern) /\ pattern[i] # "*" THEN ChunkEnd(pattern, i + 1) ELSE i

scanChunk(pattern) ==
    LET p == SkipStars(pattern)
        i == ChunkEnd(p, 1)
    IN <<pattern # <<>> /\ Head(pattern) = "*", SubSeq(p, 1, i - 1),
         SubSeq(p, i, Len(p))>>

\* matchChunk: <<rest, ok>>, the chunk matched at the front of s
RECURSIVE matchChunk(_, _)
matchChunk(chunk, s) ==
    IF chunk = <<>> THEN <<s, TRUE>>
    ELSE IF s = <<>> THEN <<<<>>, FALSE>>
    ELSE IF Head(chunk) = "?"
    THEN IF Head(s) = Separator THEN <<<<>>, FALSE>>
         ELSE matchChunk(Tail(chunk), Tail(s))
    ELSE IF Head(chunk) # Head(s) THEN <<<<>>, FALSE>>
    ELSE matchChunk(Tail(chunk), Tail(s))

\* the search after a star: the chunk tried at name[i+1:] for i = 0, 1, ...
\* while name[i] is no separator; <<rest, found>>
RECURSIVE StarSearch(_, _, _, _)
StarSearch(chunk, name, i, last) ==
    IF i > Len(name) \/ name[i] = Separator THEN <<<<>>, FALSE>>
    ELSE LET m == matchChunk(chunk, SubSeq(name, i + 1, Len(name)))
         IN IF m[2] /\ ~(last /\ Len(m[1]) > 0) THEN <<m[1], TRUE>>
            ELSE StarSearch(chunk, name, i + 1, last)

RECURSIVE filepath_Match(_, _)
filepath_Match(pattern, name) ==
    IF pattern = <<>> THEN <<name = <<>>, nil>>
    ELSE LET sc == scanChunk(pattern)
             star == sc[1]
             chunk == sc[2]
             rest == sc[3]
             m == matchChunk(chunk, name)
             found == StarSearch(chunk, name, 1, rest = <<>>)
         IN IF star /\ chunk = <<>>
            THEN <<\A i \in 1..Len(name) : name[i] # Separator, nil>>
            ELSE IF m[2] /\ (Len(m[1]) = 0 \/ Len(rest) > 0)
            THEN filepath_Match(rest, m[1])
            ELSE IF star /\ found[2] THEN filepath_Match(rest, found[1])
            ELSE <<FALSE, nil>>

\* filepath.SkipDir
SkipDir == [kind |-> "SkipDir", specified |-> <<>>]

\* the functions a caller passes to Walk, by what they return at each visit:
\* nil, filepath.SkipDir, or the error they were handed
WalkFns == {"nil", "SkipDir", "err"}

walkFn(fn, err) ==
    IF fn = "nil" THEN nil ELSE IF fn = "SkipDir" THEN SkipDir ELSE err

\* the names an entry of a directory may have, sorted
EntryNames == <<<<"a">>>>

\* readDirNames(dirname): <<names, err>>, the sorted names of the entries
readDirNames(f, getwd, dirname) ==
    LET r == Lookup(f, getwd, dirname, TRUE)
    IN IF r.err # "" THEN <<<<>>, HostError(r.err)>>
       ELSE IF r.node.kind = "locked" THEN <<<<>>, HostError("EACCES")>>
       ELSE <<SelectSeq(EntryNames,
                        LAMBDA n : NodeAt(f, Child(r.path, n)).kind # "none"),
              nil>>

\* filepath.walk and its loop over the names of a directory; both return the
\* error that ends the walk, or nil
RECURSIVE walk(_, _, _, _, _)
RECURSIVE walkNames(_, _, _, _, _)
walk(f, getwd, path, info, fn) ==
    IF ~FileInfo_IsDir(info) THEN walkFn(fn, nil)
    ELSE LET rd == readDirNames(f, getwd, path)
             err1 == walkFn(fn, rd[2])
         IN IF rd[2] # nil \/ err1 # nil THEN err1
            ELSE walkNames(f, getwd, path, rd[1], fn)

walkNames(f, getwd, path, names, fn) ==
    IF names = <<>> THEN nil
    ELSE LET filename == filepath_Join(<<path, Head(names)>>)
             li == os_Lstat(f, getwd, filename)
             e == IF li[2] # nil THEN walkFn(fn, li[2])
                  ELSE walk(f, getwd, filename, li[1], fn)
         IN IF li[2] # nil
            THEN IF e # nil /\ e # SkipDir THEN e
                 ELSE walkNames(f, getwd, path, Tail(names), fn)
            ELSE IF e # nil /\ (~FileInfo_IsDir(li[1]) \/ e # SkipDir) THEN e
                 ELSE walkNames(f, getwd, path, Tail(names), fn)

\* filepath.Walk(root, fn): the error the walk ends with
filepath_Walk(f, getwd, root, fn) ==
    LET li == os_Lstat(f, getwd, root)
        err == IF li[2] # nil THEN walkFn(fn, li[2])
               ELSE walk(f, getwd, root, li[1], fn)
    IN IF err = SkipDir THEN nil ELSE err

(* ---------------------------------------------------------------------- *)
(* The package's functions.  Each returns what the Go function returns;   *)
(* getwd and current are the answers os.Getwd() and user.Current() give   *)
(* at the time of the call.                                               *)
(* ---------------------------------------------------------------------- *)

\* filepath.Abs(path): <<abs, err>>
filepath_Abs(path, getwd) ==
    IF filepath_IsAbs(path) THEN <<filepath_Clean(path), nil>>
    ELSE IF getwd[2] # nil THEN <<<<>>, getwd[2]>>
    ELSE <<filepath_Join(<<getwd[1], path>>), nil>>

\* New as it was before it cleaned: the string is wrapped as given
NewUncleaned(from) ==
    IF ~filepath_IsAbs(from)
    THEN <<AbsPath(<<>>), NotAbsolutePathError(from)>>
    ELSE <<AbsPath(from), nil>>

\* New with the error built from the cleaned string, not the one passed
NewReportsCleaned(from) ==
    IF ~filepath_IsAbs(from)
    THEN <<AbsPath(<<>>), NotAbsolutePathError(filepath_Clean(from))>>
    ELSE <<AbsPath(filepath_Clean(from)), nil>>

\* New with the neighbouring wrapper's call: filepath.Dir for filepath.Clean
NewOfDir(from) ==
    IF ~filepath_IsAbs(from)
    THEN <<AbsPath(<<>>), NotAbsolutePathError(from)>>
    ELSE <<AbsPath(filepath_Dir(from)), nil>>

New(from) ==
    IF ~filepath_IsAbs(from)
    THEN <<AbsPath(<<>>), NotAbsolutePathError(from)>>
    ELSE <<AbsPath(filepath_Clean(from)), nil>>

\* the "~" branch with the "~" left in what is joined
ExpandTildeKept(maybe_relative, current) ==
    IF current[2] # nil THEN <<AbsPath(<<>>), current[2]>>
    ELSE <<AbsPath(filepath_Join(<<current[1], maybe_relative>>)), nil>>

\* ExpandFrom's branch for a leading "~": the home directory joined with the rest
ExpandTilde(maybe_relative, current) ==
    IF current[2] # nil THEN <<AbsPath(<<>>), current[2]>>
    ELSE <<AbsPath(filepath_Join(<<current[1], Tail(maybe_relative)>>)), nil>>

\* the relative branch joining onto a directory remembered from the start of
\* the process (the root) instead of asking for the current one
ExpandRelativeStale(maybe_relative, getwd) ==
    LET p == filepath_Abs(maybe_relative, <<<<"/">>, nil>>)
    IN IF p[2] # nil THEN <<AbsPath(<<>>), p[2]>> ELSE <<AbsPath(p[1]), nil>>

\* ExpandFrom's last branch: filepath.Abs of a relative path
ExpandRelative(maybe_relative, getwd) ==
    LET p == filepath_Abs(maybe_relative, getwd)
    IN IF p[2] # nil THEN <<AbsPath(<<>>), p[2]>> ELSE <<AbsPath(p[1]), nil>>

\* ExpandFrom without the test for the empty string: "" is expanded like any
\* other relative path, to the working directory
ExpandFromEmptyExpanded(maybe_relative, getwd, current) ==
    IF filepath_IsAbs(maybe_relative)
    THEN <<AbsPath(filepath_Clean(maybe_relative)), nil>>
    ELSE IF maybe_relative # <<>> /\ maybe_relative[1] = "~"
    THEN ExpandTilde(maybe_relative, current)
    ELSE ExpandRelative(maybe_relative, getwd)

ExpandFrom(maybe_relative, getwd, current) ==
    IF filepath_IsAbs(maybe_relative)
    THEN <<AbsPath(filepath_Clean(maybe_relative)), nil>>
    ELSE IF maybe_relative = <<>>
    THEN <<AbsPath(<<>>), EmptyPathError>>
    ELSE IF maybe_relative[1] = "~"
    THEN ExpandTilde(maybe_relative, current)
    ELSE ExpandRelative(maybe_relative, getwd)

FromSlash(s) == New(filepath_FromSlash(s))

ExpandFromSlash(s, getwd, current) ==
    ExpandFrom(filepath_FromSlash(s), getwd, current)

Getwd(getwd) ==
    IF getwd[2] # nil THEN <<AbsPath(<<>>), nil>> ELSE New(getwd[1])

\* the methods; a is the receiver
Base(a) == AbsPath(filepath_Base(a.underlying))

\* Dir taking the directory part as filepath.Split leaves it, uncleaned
DirOfSplit(a) == AbsPath(filepath_Split(a.underlying)[1])

Dir(a) == AbsPath(filepath_Dir(a.underlying))

\* Join with the switch off by one: a single element is treated as none
JoinSkipsOne(a, elem) ==
    IF Len(elem) <= 1 THEN a
    ELSE AbsPath(filepath_Join(<<a.underlying, filepath_Join(elem)>>))

\* Join without the case for no elements: the receiver goes through the join
JoinOfNoneCleans(a, elem) ==
    IF Len(elem) <= 1 THEN AbsPath(filepath_Join(<<a.underlying>> \o elem))
    ELSE AbsPath(filepath_Join(<<a.underlying, filepath_Join(elem)>>))

\* Join by concatenation: the elements appended with separators, not cleaned
JoinRaw(a, elem) ==
    IF Len(elem) = 0 THEN a
    ELSE AbsPath(StringsJoin(<<a.underlying>> \o elem))

Join(a, elem) ==
    IF Len(elem) = 0 THEN a
    ELSE IF Len(elem) = 1 THEN AbsPath(filepath_Join(<<a.underlying, elem[1]>>))
    ELSE AbsPath(filepath_Join(<<a.underlying, filepath_Join(elem)>>))

\* <<dir, file>>
Split(a) ==
    LET df == filepath_Split(a.underlying) IN <<AbsPath(df[1]), df[2]>>

String(a) == a.underlying

Ext(a) == filepath_Ext(a.underlying)

\* <<matched, err>>
Match(a, pattern) == filepath_Match(pattern, a.underlying)

\* <<rel, err>>
Rel(a, targpath) == filepath_Rel(a.underlying, targpath)

ToSlash(a) == filepath_ToSlash(a.underlying)

VolumeName(a) == filepath_VolumeName(a.underlying)

\* HasPrefix that takes the prefix as a path: it must end where an element of
\* the receiver ends
HasPrefixByElement(a, prefix) ==
    /\ filepath_HasPrefix(a.underlying, prefix)
    /\ \/ Len(prefix) = Len(a.underlying)
       \/ IsPathSeparator(a.underlying[Len(prefix) + 1])
       \/ (prefix # <<>> /\ IsPathSeparator(prefix[Len(prefix)]))

AbsPath_HasPrefix(a, prefix) == filepath_HasPrefix(a.underlying, prefix)

\* the filesystem queries; f is the filesystem and getwd the working
\* directory at the time of the call

\* Exists that takes only a missing entry for "does not exist" and any other
\* failure of the query for a sign that something is there
ExistsUnlessMissing(a, f, getwd) ==
    os_Stat(f, getwd, a.underlying)[2] # HostError("ENOENT")

Exists(a, f, getwd) == os_Stat(f, getwd, a.underlying)[2] = nil

IsDir(a, f, getwd) ==
    LET r == os_Stat(f, getwd, a.underlying)
    IN IF r[2] # nil THEN FALSE ELSE FileInfo_IsDir(r[1])

\* IsFile that takes everything that is not a directory for a file, a failed
\* query included
IsFileUnlessDir(a, f, getwd) ==
    LET r == os_Stat(f, getwd, a.underlying)
    IN ~FileInfo_IsDir(r[1])

IsFile(a, f, getwd) ==
    LET r == os_Stat(f, getwd, a.underlying)
    IN IF r[2] # nil THEN FALSE ELSE ~FileInfo_IsDir(r[1])

\* <<info, err>>
Stat(a, f, getwd) == os_Stat(f, getwd, a.underlying)

\* the error Walk ends with
Walk(a, f, getwd, fn) == filepath_Walk(f, getwd, a.underlying, fn)

\* the rest of a.EvalSymlinks() once filepath.EvalSymlinks has returned
\* <<s, err>>: <<AbsPath, err>>
EvalSymlinksOf(s, err, getwd) ==
    IF err # nil THEN <<AbsPath(<<>>), err>>
    ELSE LET p == filepath_Abs(s, getwd)
         IN IF p[2] # nil THEN <<AbsPath(<<>>), p[2]>>
            ELSE <<AbsPath(p[1]), nil>>

\* <<AbsPath, err>>
EvalSymlinks(a, f, getwd) ==
    CHOOSE r \in {EvalSymlinksOf(s[1], s[2], getwd) :
                     s \in {filepath_EvalSymlinks(f, getwd, a.underlying)}} : TRUE

(* -------------------------------- state -------------------------------- *)

VARIABLES
    wd,     \* what os.Getwd() returns now: <<dir, err>>
    usr,    \* what user.Current() returns: <<u.HomeDir, err>>
    fs,     \* the filesystem: the entry at each path of FsPaths
    held,   \* whether the caller holds an AbsPath it was handed with a nil error
    cur,    \* the AbsPath the caller holds in its variable a: the one the
            \* last AbsPath-returning call handed back, until it is replaced
    call,   \* the last call: what was passed and what came back
    prev    \* the call before it, when the last call's inputs all came from
            \* it: its receiver and arguments are what that call returned (or,
            \* for a constructor that asks for the working directory, that
            \* call set the directory); NoCall otherwise

vars == <<wd, usr, fs, held, cur, call, prev>>

Call(op, recv, arg, elem, ret, str, err) ==
    [op |-> op, recv |-> recv, arg |-> arg, elem |-> elem, ret |-> ret,
     str |-> str, ok |-> FALSE, err |-> err]

NoCall == Call("none", AbsPath(<<>>), <<>>, <<>>, AbsPath(<<>>), <<>>, nil)

\* the calls that hand back an AbsPath
PathOps == {"New", "ExpandFrom", "FromSlash", "ExpandFromSlash", "Getwd",
            "Base", "Dir", "Join", "Split"}

\* the last call handed the caller the value it now holds
Produced == held /\ call.op \in PathOps

\* a constructor handed back r = <<AbsPath, error>>
Returned(op, arg, r, used) ==
    /\ call' = Call(op, AbsPath(<<>>), arg, <<>>, r[1], <<>>, r[2])
    /\ cur' = r[1]
    /\ held' = (r[2] = nil)
    /\ prev' = IF used THEN call ELSE NoCall
    /\ UNCHANGED <<wd, usr, fs>>

\* a method of the held value handed back the AbsPath ret (and the string
\* str); chained: every input of the call is an output of the call before
Derived(op, elem, ret, str, chained) ==
    /\ cur' = ret
    /\ call' = Call(op, cur, <<>>, elem, cur', str, nil)
    /\ held' = TRUE
    /\ prev' = IF chained THEN call ELSE NoCall
    /\ UNCHANGED <<wd, usr, fs>>

\* a method that works on the value in place, as one with a pointer receiver
\* could: the AbsPath it derives is stored in the caller's value
AskedInPlace(op, arg, elem, ret, str, ok, err) ==
    /\ call' = [Call(op, cur, arg, elem, ret, str, err) EXCEPT !.ok = ok]
    /\ prev' = NoCall
    /\ cur' = IF op \in PathOps THEN ret ELSE cur
    /\ UNCHANGED <<wd, usr, fs, held>>

\* a method of the held value answered and the caller keeps the value: the
\* AbsPath ret, the string str, the boolean ok and the error err came back
Asked(op, arg, elem, ret, str, ok, err) ==
    /\ call' = [Call(op, cur, arg, elem, ret, str, err) EXCEPT !.ok = ok]
    /\ prev' = NoCall
    /\ UNCHANGED <<wd, usr, fs, held, cur>>

(* ---------------------------------------------------------------------- *)
(* Spec: a caller of the constructors, on a host whose working directory  *)
(* changes under it.                                                      *)
(* ---------------------------------------------------------------------- *)

Init ==
    /\ wd \in GetwdAnswers
    /\ usr \in CurrentAnswers
    /\ fs = PlainFs
    /\ held = FALSE
    /\ cur = AbsPath(<<>>)
    /\ call = NoCall
    /\ prev = NoCall

\* the working directory changes: os.Chdir to a directory that is there, or
\* the directory is removed
Chdir ==
    \E answer \in GetwdAnswers \ {wd} :
        /\ answer[2] = nil => FileInfo_IsDir(NodeAt(fs, answer[1]))
        /\ wd' = answer
        /\ call' = Call("Chdir", AbsPath(<<>>), wd[1], <<>>, AbsPath(<<>>),
                        answer[1], nil)
        /\ prev' = NoCall
        /\ UNCHANGED <<usr, fs, held, cur>>

CallNew ==
    \E from \in Inputs : Returned("New", from, New(from), FALSE)

CallFromSlash ==
    \E s \in Inputs : Returned("FromSlash", s, FromSlash(s), FALSE)

CallExpandFrom ==
    \E s \in Inputs :
        Returned("ExpandFrom", s, ExpandFrom(s, wd, usr), call.op = "Chdir")

CallExpandFromSlash ==
    \E s \in Inputs :
        Returned("ExpandFromSlash", s, ExpandFromSlash(s, wd, usr),
                 call.op = "Chdir")

CallGetwd == Returned("Getwd", <<>>, Getwd(wd), call.op = "Chdir")

Next ==
    \/ Chdir
    \/ CallNew
    \/ CallFromSlash
    \/ CallExpandFrom
    \/ CallExpandFromSlash
    \/ CallGetwd

Spec == Init /\ [][Next]_vars

(* ---------------------------------------------------------------------- *)
(* SpecValue: the life of a value.  The caller holds the AbsPath a        *)
(* constructor returned and calls methods on what it holds.               *)
(* ---------------------------------------------------------------------- *)

InitValue ==
    /\ wd = <<<<"/">>, nil>>
    /\ usr = <<<<"/", "a">>, nil>>
    /\ fs = PlainFs
    /\ \E from \in Inputs :
           /\ New(from)[2] = nil
           /\ call = Call("New", AbsPath(<<>>), from, <<>>, New(from)[1], <<>>, nil)
           /\ cur = New(from)[1]
    /\ held = TRUE
    /\ prev = NoCall

CallBase == held /\ Derived("Base", <<>>, Base(cur), <<>>, Produced)

CallDir == held /\ Derived("Dir", <<>>, Dir(cur), <<>>, Produced)

\* a.Join(elem...); elem may be the file name a Split() call just returned
CallJoin ==
    /\ held
    /\ \E elem \in ElemLists \cup (IF call.op = "Split" THEN {<<call.str>>} ELSE {}) :
           /\ Derived("Join", elem, Join(cur, elem), <<>>,
                      call.op = "Split" /\ elem = <<call.str>>)
           /\ Len(cur'.underlying) <= MaxPath

CallSplit ==
    held /\ Derived("Split", <<>>, Split(cur)[1], Split(cur)[2], Produced)

\* a.String(): the caller keeps a and gets its string
CallString ==
    /\ held
    /\ call' = Call("String", cur, <<>>, <<>>, AbsPath(<<>>), String(cur), nil)
    /\ prev' = IF Produced THEN call ELSE NoCall
    /\ UNCHANGED <<wd, usr, fs, held, cur>>

\* New(a.String()): the string a String() call returned, handed to New
CallNewOfString ==
    /\ call.op = "String"
    /\ Returned("New", call.str, New(call.str), TRUE)

\* b, _ := New(s) or FromSlash(s), s absolute: a second value beside the one
\* a constructor handed back, for the caller to compare the two
CallNewBeside ==
    /\ held
    /\ call.op \in {"New", "FromSlash"}
    /\ \E s \in {i \in Inputs : filepath_IsAbs(i)} :
           \/ Returned("New", s, New(s), TRUE)
           \/ Returned("FromSlash", s, FromSlash(s), TRUE)

\* a.HasPrefix(prefix)
CallHasPrefix ==
    /\ held
    /\ \E prefix \in Prefixes :
           Asked("HasPrefix", prefix, <<>>, AbsPath(<<>>), <<>>,
                 AbsPath_HasPrefix(cur, prefix), nil)

NextValue ==
    \/ CallBase
    \/ CallDir
    \/ CallJoin
    \/ CallSplit
    \/ CallString
    \/ CallNewOfString
    \/ CallNewBeside
    \/ CallHasPrefix

SpecValue == InitValue /\ [][NextValue]_vars

(* ---------------------------------------------------------------------- *)
(* SpecFile: a value and the filesystem.  The caller keeps the AbsPath it  *)
(* holds and calls its methods, while the filesystem and the working       *)
(* directory change under it.                                              *)
(* ---------------------------------------------------------------------- *)

\* the strings the held value is made from: the root, the entries of FsPaths
\* and a name that is never there
FileInputs == {<<"/">>, <<"/", ".", "a">>} \cup FsPaths

\* the values a caller may hold: what New handed back, and what Base and
\* Split made of it
Receivers ==
    LET made == {New(from)[1] : from \in FileInputs}
    IN made \cup {Base(a) : a \in made} \cup {Split(a)[1] : a \in made}

\* the lists passed to Join: no element, one, more
FileElemLists == {<<>>, <<<<"a">>>>, <<<<".", ".">>, <<"a">>>>}

\* the patterns passed to Match and the paths passed to Rel
Patterns == {<<"*">>, <<"/", "*">>, <<"/", "?">>, <<"/", "*", "/", "a">>}

Targets == {<<"/">>, <<"/", "a">>, <<"a">>, <<"/", ".", "a", "/", "a">>}

InitFile ==
    /\ fs \in FileSystems
    /\ wd \in {g \in GetwdAnswers :
                  g[2] = nil => FileInfo_IsDir(NodeAt(fs, g[1]))}
    /\ usr = <<<<"/", "a">>, nil>>
    /\ cur \in Receivers
    /\ held = TRUE
    /\ call = NoCall
    /\ prev = NoCall

\* the filesystem changes: entries are made, removed or replaced; the
\* working directory stays a directory
Chfs ==
    \E f \in FileSystems \ {fs} :
        /\ wd[2] = nil => FileInfo_IsDir(NodeAt(f, wd[1]))
        /\ fs' = f
        /\ call' = Call("Chfs", AbsPath(<<>>), <<>>, <<>>, AbsPath(<<>>), <<>>, nil)
        /\ prev' = NoCall
        /\ UNCHANGED <<wd, usr, held, cur>>

\* b := a.Base(), a.Dir(), a.Join(elem...), d, f := a.Split(): the caller
\* keeps a beside the value handed back
KeepBase == held /\ Asked("Base", <<>>, <<>>, Base(cur), <<>>, FALSE, nil)

KeepDir == held /\ Asked("Dir", <<>>, <<>>, Dir(cur), <<>>, FALSE, nil)

KeepJoin ==
    /\ held
    /\ \E elem \in FileElemLists :
           Asked("Join", <<>>, elem, Join(cur, elem), <<>>, FALSE, nil)

KeepSplit ==
    held /\ Asked("Split", <<>>, <<>>, Split(cur)[1], Split(cur)[2], FALSE, nil)

CallExt == held /\ Asked("Ext", <<>>, <<>>, AbsPath(<<>>), Ext(cur), FALSE, nil)

CallToSlash ==
    held /\ Asked("ToSlash", <<>>, <<>>, AbsPath(<<>>), ToSlash(cur), FALSE, nil)

CallVolumeName ==
    held /\ Asked("VolumeName", <<>>, <<>>, AbsPath(<<>>), VolumeName(cur),
                  FALSE, nil)

CallMatch ==
    /\ held
    /\ \E pattern \in Patterns :
           Asked("Match", pattern, <<>>, AbsPath(<<>>), <<>>,
                 Match(cur, pattern)[1], Match(cur, pattern)[2])

CallRel ==
    /\ held
    /\ \E targpath \in Targets :
           Asked("Rel", targpath, <<>>, AbsPath(<<>>), Rel(cur, targpath)[1],
                 FALSE, Rel(cur, targpath)[2])

CallEvalSymlinks ==
    /\ held
    /\ \E r \in {EvalSymlinks(cur, fs, wd)} :
           Asked("EvalSymlinks", <<>>, <<>>, r[1], <<>>, FALSE, r[2])

\* a.Walk(walkFn); arg is the kind of function passed
CallWalk ==
    /\ held
    /\ \E fn \in WalkFns :
           Asked("Walk", <<fn>>, <<>>, AbsPath(<<>>), <<>>, FALSE,
                 Walk(cur, fs, wd, fn))

CallExists ==
    held /\ Asked("Exists", <<>>, <<>>, AbsPath(<<>>), <<>>,
                  Exists(cur, fs, wd), nil)

CallIsDir ==
    held /\ Asked("IsDir", <<>>, <<>>, AbsPath(<<>>), <<>>,
                  IsDir(cur, fs, wd), nil)

CallIsFile ==
    held /\ Asked("IsFile", <<>>, <<>>, AbsPath(<<>>), <<>>,
                  IsFile(cur, fs, wd), nil)

\* a.Stat(): ok is info.IsDir() of the FileInfo handed back
CallStat ==
    /\ held
    /\ LET r == Stat(cur, fs, wd)
       IN Asked("Stat", <<>>, <<>>, AbsPath(<<>>), <<>>,
                r[2] = nil /\ FileInfo_IsDir(r[1]), r[2])

NextFile ==
    \/ Chdir
    \/ Chfs
    \/ CallGetwd
    \/ KeepBase
    \/ KeepDir
    \/ KeepJoin
    \/ KeepSplit
    \/ CallString
    \/ CallExt
    \/ CallToSlash
    \/ CallVolumeName
    \/ CallMatch
    \/ CallRel
    \/ CallEvalSymlinks
    \/ CallWalk
    \/ CallExists
    \/ CallIsDir
    \/ CallIsFile
    \/ CallStat

SpecFile == InitFile /\ [][NextFile]_vars

(* ---------------------------------------------------------------------- *)
(* What the claims speak of.  The normal form of a rooted path is stated  *)
(* here on its elements, apart from the byte loop of filepath_Clean.      *)
(* ---------------------------------------------------------------------- *)

\* the elements of s: the stretches between separators
RECURSIVE Segments(_)
Segments(s) ==
    LET seps == {i \in 1..Len(s) : s[i] = "/"}
    IN IF seps = {} THEN <<s>>
       ELSE LET i == CHOOSE k \in seps : \A j \in seps : k <= j
            IN <<SubSeq(s, 1, i - 1)>> \o Segments(SubSeq(s, i + 1, Len(s)))

\* the elements left of a rooted path: no empty one, no ".", and ".." takes
\* the element before it away (at the root there is none to take)
RECURSIVE Resolve(_, _)
Resolve(segs, stack) ==
    IF segs = <<>> THEN stack
    ELSE LET h == Head(segs)
         IN Resolve(Tail(segs),
                    IF h = <<>> \/ h = <<".">> THEN stack
                    ELSE IF h = <<".", ".">>
                    THEN SubSeq(stack, 1, Len(stack) - 1)
                    ELSE Append(stack, h))

RECURSIVE Rooted(_)
Rooted(stack) ==
    IF stack = <<>> THEN <<>> ELSE <<"/">> \o Head(stack) \o Rooted(Tail(stack))

\* the cleaned form of a rooted path s
NormalForm(s) ==
    LET stack == Resolve(Segments(s), <<>>)
    IN IF stack = <<>> THEN <<"/">> ELSE Rooted(stack)

\* a valid AbsPath: its string is non-empty, absolute and already cleaned
IsValid(a) ==
    /\ a.underlying # <<>>
    /\ filepath_IsAbs(a.underlying)
    /\ filepath_Clean(a.underlying) = a.underlying

IsRoot(a) == a.underlying = <<Separator>>

HasSeparator(s) == \E i \in 1..Len(s) : IsPathSeparator(s[i])

\* s is relative, non-empty and has no leading "~"
PlainRelative(s) == s # <<>> /\ ~filepath_IsAbs(s) /\ s[1] # "~"

(* ------------------------------- claims -------------------------------- *)

\* C1: every AbsPath handed back with a nil error by a constructor, or by a
\* derivation method applied to such a value, stores a string that is
\* non-empty, absolute and cleaned.
C1_TypeInvariant == held => IsValid(cur)

\* C2: for every absolute s, New(s) returns a nil error and an AbsPath whose
\* string is the cleaned form of s (separators collapsed, "." elements gone,
\* no trailing separator except at the root); cleaning it again changes nothing.
C2_NewCleans ==
    (call.op = "New" /\ filepath_IsAbs(call.arg)) =>
        /\ call.err = nil
        /\ held
        /\ String(call.ret) = NormalForm(call.arg)
        /\ filepath_Clean(String(call.ret)) = String(call.ret)

\* C2's case: New has cleaned an absolute string that was not clean
C2_Witness ==
    /\ call.op = "New"
    /\ filepath_IsAbs(call.arg)
    /\ call.err = nil
    /\ String(call.ret) # call.arg
    /\ String(call.ret) = NormalForm(call.arg)

C4_ExpandFromRelative ==
    (call.op = "ExpandFrom" /\ PlainRelative(call.arg) /\ wd[2] = nil) =>
        /\ call.err = nil
        /\ held
        /\ String(call.ret) = NormalForm(wd[1] \o <<"/">> \o call.arg)

\* C4's case: the working directory has changed and the next ExpandFrom
\* follows the new one, away from what the old one would have given
C4_Witness ==
    /\ call.op = "ExpandFrom"
    /\ PlainRelative(call.arg)
    /\ prev.op = "Chdir"
    /\ prev.arg # <<>>
    /\ wd[2] = nil
    /\ String(call.ret) = NormalForm(wd[1] \o <<"/">> \o call.arg)
    /\ String(call.ret) # NormalForm(prev.arg \o <<"/">> \o call.arg)

\* C5: for every s that begins with "~", when the host resolves the current
\* user, ExpandFrom(s) succeeds and its string is the cleaned join of the home
\* directory with the rest of s after the "~"; when it cannot, ExpandFrom fails.
C5_ExpandFromTilde ==
    (call.op = "ExpandFrom" /\ call.arg # <<>> /\ call.arg[1] = "~") =>
        IF usr[2] = nil
        THEN /\ call.err = nil
             /\ held
             /\ String(call.ret) = NormalForm(usr[1] \o <<"/">> \o Tail(call.arg))
        ELSE call.err # nil /\ ~held

\* C5's case: "~" with a name right behind it, joined onto the home directory
C5_Witness ==
    /\ call.op = "ExpandFrom"
    /\ Len(call.arg) > 1
    /\ call.arg[1] = "~"
    /\ call.arg[2] = "a"
    /\ call.err = nil
    /\ String(call.ret) = usr[1] \o <<"/">> \o Tail(call.arg)

\* C6: ExpandFrom("") and ExpandFromSlash("") fail with the "empty path cannot
\* be expanded" error, which is not a NotAbsolutePathError; New("") fails with
\* NotAbsolutePathError.
C6_EmptyPath ==
    /\ (call.op \in {"ExpandFrom", "ExpandFromSlash"} /\ call.arg = <<>>) =>
           /\ call.err # nil
           /\ call.err.kind # "NotAbsolutePathError"
           /\ Error(call.err) = <<"Empty path cannot be expanded">>
    /\ (call.op = "New" /\ call.arg = <<>>) =>
           call.err.kind = "NotAbsolutePathError"

\* C6's case: ExpandFromSlash has refused the empty string
C6_Witness ==
    /\ call.op = "ExpandFromSlash"
    /\ call.arg = <<>>
    /\ call.err = EmptyPathError
    /\ ~held

\* C7: when the host's working-directory query fails, Getwd returns a non-nil
\* error; when it succeeds with d, Getwd returns a nil error and an AbsPath
\* whose string is d.
C7_GetwdReportsFailure ==
    call.op = "Getwd" =>
        IF wd[2] # nil THEN call.err # nil
        ELSE call.err = nil /\ String(call.ret) = wd[1]

\* C8: for every valid AbsPath a, New(a.String()) returns a nil error and a
\* value equal to a.
C8_RoundTrip ==
    (call.op = "New" /\ prev.op = "String" /\ call.arg = prev.str
     /\ IsValid(prev.recv)) =>
        call.err = nil /\ call.ret = prev.recv

\* C8's case: a valid value below the root went through String() and New
C8_Witness ==
    /\ call.op = "New"
    /\ prev.op = "String"
    /\ call.arg = prev.str
    /\ IsValid(prev.recv)
    /\ ~IsRoot(prev.recv)
    /\ call.err = nil
    /\ call.ret = prev.recv

\* C9, as claimed: for every valid a that is not the root and every x with no
\* separator in it, a.Join(x).Dir() equals a.
C9_JoinDirAnyElement ==
    (call.op = "Dir" /\ prev.op = "Join" /\ call.recv = prev.ret
     /\ IsValid(prev.recv) /\ ~IsRoot(prev.recv)
     /\ Len(prev.elem) = 1 /\ ~HasSeparator(prev.elem[1])) =>
        call.ret = prev.recv

\* C9, amended: for every valid a that is not the root and every x that is not
\* empty, has no separator in it and is neither "." nor "..", a.Join(x).Dir()
\* equals a.
C9_JoinDirOfName ==
    (call.op = "Dir" /\ prev.op = "Join" /\ call.recv = prev.ret
     /\ IsValid(prev.recv) /\ ~IsRoot(prev.recv)
     /\ Len(prev.elem) = 1 /\ ~HasSeparator(prev.elem[1])
     /\ prev.elem[1] \notin {<<>>, <<".">>, <<".", ".">>}) =>
        call.ret = prev.recv

\* C9's case: a name was joined onto a valid value below the root, and Dir of
\* the longer path gave the value back
C9_Witness ==
    /\ call.op = "Dir"
    /\ prev.op = "Join"
    /\ call.recv = prev.ret
    /\ IsValid(prev.recv)
    /\ ~IsRoot(prev.recv)
    /\ prev.elem = <<<<"a">>>>
    /\ prev.ret # prev.recv
    /\ call.ret = prev.recv

\* C10: for every valid a, if (dir, file) = a.Split() then dir.Join(file)
\* equals a.
C10_SplitJoin ==
    (call.op = "Join" /\ prev.op = "Split" /\ call.recv = prev.ret
     /\ call.elem = <<prev.str>> /\ IsValid(prev.recv)) =>
        call.ret = prev.recv

\* C10's case: a valid value below the root was split into a directory that
\* keeps its trailing separator and a file name, and joined again
C10_Witness ==
    /\ call.op = "Join"
    /\ prev.op = "Split"
    /\ call.recv = prev.ret
    /\ call.elem = <<prev.str>>
    /\ IsValid(prev.recv)
    /\ ~IsRoot(prev.recv)
    /\ prev.str # <<>>
    /\ ~IsValid(prev.ret)
    /\ call.ret = prev.recv


\* the last element of s: what follows its last separator
LastElement(s) == Segments(s)[Len(Segments(s))]

\* C11: for every valid a, the directory a.Split() returns is a normalized
\* AbsPath (cleaned: no trailing separator unless it is the root, so it equals
\* a.Dir()), and the second component is the name of the final element.
C11_SplitDirNormalized ==
    (call.op = "Split" /\ IsValid(call.recv)) =>
        /\ IsValid(call.ret)
        /\ call.ret = Dir(call.recv)
        /\ call.str = LastElement(String(call.recv))

\* C12: for every valid a and every list e1..en, n >= 1, of elements (empty,
\* ".", "..", or beginning with a separator), a.Join(e1, ..., en).String() is
\* filepath.Join(a.String(), e1, ..., en): joining the elements among
\* themselves first changes nothing.
C12_JoinIsHostJoin ==
    (call.op = "Join" /\ IsValid(call.recv) /\ Len(call.elem) >= 1) =>
        String(call.ret) = filepath_Join(<<String(call.recv)>> \o call.elem)

\* C13: for every AbsPath a, valid or not, a.Join() with no elements returns a
\* value equal to a: the stored string is not cleaned again or altered.
C13_JoinOfNone ==
    (call.op = "Join" /\ call.elem = <<>>) =>
        call.ret = call.recv /\ String(call.ret) = String(call.recv)

\* C13's case: a value whose string is not clean (the directory Split hands
\* back) came out of Join() as it went in
C13_Witness ==
    /\ call.op = "Join"
    /\ call.elem = <<>>
    /\ ~IsValid(call.recv)
    /\ filepath_Clean(String(call.recv)) # String(call.recv)
    /\ call.ret = call.recv

\* the parent of a rooted path s, on its elements: the last one taken away
Parent(s) ==
    LET stack == Resolve(Segments(s), <<>>)
    IN IF Len(stack) <= 1 THEN <<"/">>
       ELSE Rooted(SubSeq(stack, 1, Len(stack) - 1))

\* C20: validity is closed under Dir and Join: for every valid a and every list
\* of elements (".." repeated past the root, empty strings and elements that
\* begin with a separator included), a.Dir() and a.Join(elems...) store strings
\* that are absolute and cleaned; a.Dir() is the immediate parent of a, and Dir
\* of the root is the root.
C20_ClosedUnderDirJoin ==
    (call.op \in {"Dir", "Join"} /\ IsValid(call.recv)) =>
        /\ IsValid(call.ret)
        /\ call.op = "Dir" => String(call.ret) = Parent(String(call.recv))
        /\ (call.op = "Dir" /\ IsRoot(call.recv)) => IsRoot(call.ret)

\* C20's case: ".." three times over took a value two levels down past the
\* root, and the result is the root
C20_Witness ==
    /\ call.op = "Join"
    /\ IsValid(call.recv)
    /\ Len(Segments(String(call.recv))) = 3
    /\ call.elem = <<<<".", ".">>, <<".", ".">>, <<".", ".">>>>
    /\ IsRoot(call.ret)

\* C17, as claimed: for the empty string, ExpandFrom and ExpandFromSlash fail
\* with the NotAbsolutePathError kind, the error that carries the offending
\* string, as New and FromSlash do.
C17_EmptyIsNotAbsolute ==
    (call.op \in {"ExpandFrom", "ExpandFromSlash", "New", "FromSlash"}
     /\ call.arg = <<>>) =>
        call.err = NotAbsolutePathError(call.arg)

\* C17, amended: for the empty string, ExpandFrom and ExpandFromSlash fail,
\* whatever the host answers, with the plain error "Empty path cannot be
\* expanded", which carries no string, and hand back the zero AbsPath; New and
\* FromSlash fail with the NotAbsolutePathError that carries the empty string.
C17_EmptyErrorKinds ==
    call.arg = <<>> =>
        /\ call.op \in {"ExpandFrom", "ExpandFromSlash"} =>
               /\ call.err = EmptyPathError
               /\ call.ret = AbsPath(<<>>)
               /\ ~held
        /\ call.op \in {"New", "FromSlash"} =>
               /\ call.err = NotAbsolutePathError(<<>>)
               /\ ~held

\* C17's case: ExpandFrom has refused the empty string on a host that would
\* have answered with a working directory
C17_Witness ==
    /\ call.op = "ExpandFrom"
    /\ call.arg = <<>>
    /\ wd[2] = nil
    /\ call.err = EmptyPathError
    /\ call.err # NotAbsolutePathError(call.arg)

\* C15: two AbsPath values are equal (==) iff their strings are the same,
\* character by character; so two absolute inputs give equal values from New
\* and FromSlash when their cleaned forms are the same, and unequal values
\* when they differ.
C15_EqualityOfStrings ==
    (call.op \in {"New", "FromSlash"} /\ prev.op \in {"New", "FromSlash"}
     /\ call.err = nil /\ prev.err = nil) =>
        /\ Equal(prev.ret, call.ret) <=> String(prev.ret) = String(call.ret)
        /\ Equal(prev.ret, call.ret) <=>
               NormalForm(prev.arg) = NormalForm(call.arg)

\* C15's case: New and FromSlash were handed two different strings with the
\* same cleaned form, and the two values are equal
C15_Witness ==
    /\ prev.op = "New"
    /\ call.op = "FromSlash"
    /\ prev.err = nil
    /\ call.err = nil
    /\ prev.arg # call.arg
    /\ Len(prev.arg) > 1
    /\ NormalForm(prev.arg) = NormalForm(call.arg)
    /\ Equal(prev.ret, call.ret)

Methods == {"Base", "Dir", "Ext", "Join", "Match", "Rel", "Split", "ToSlash",
            "VolumeName", "EvalSymlinks", "Walk", "Exists", "IsDir", "IsFile",
            "Stat", "String"}

\* what the host's stat of the receiver of the last call answers now
StatOfRecv == os_Stat(fs, wd, String(call.recv))

\* C14: Exists, IsDir and IsFile never hand back an error and answer false
\* for every failure of stat (entry missing, not accessible, any other):
\* Exists() is true iff stat succeeds, IsDir() iff it succeeds on a directory,
\* IsFile() iff it succeeds on something that is not a directory.
C14_QueriesCollapseFailures ==
    /\ call.op \in {"Exists", "IsDir", "IsFile"} => call.err = nil
    /\ call.op = "Exists" => call.ok = (StatOfRecv[2] = nil)
    /\ call.op = "IsDir" =>
           call.ok = (StatOfRecv[2] = nil /\ StatOfRecv[1].kind \in {"dir", "locked"})
    /\ call.op = "IsFile" =>
           call.ok = (StatOfRecv[2] = nil /\ StatOfRecv[1].kind = "file")

\* C14's case: stat fails on an entry that is there but cannot be reached
\* (its directory is locked), and Exists answers false
C14_Witness ==
    /\ call.op = "Exists"
    /\ IsValid(call.recv)
    /\ StatOfRecv[2] = HostError("EACCES")
    /\ fs[String(call.recv)].kind = "file"
    /\ ~call.ok

\* C16: EvalSymlinks returns a non-nil error and the zero AbsPath whenever the
\* receiver's path does not exist or cannot be resolved; when it succeeds, the
\* AbsPath handed back stores an absolute path, that of the entry the
\* receiver's path leads to with no symbolic link left in it.
C16_EvalSymlinks ==
    call.op = "EvalSymlinks" =>
        /\ StatOfRecv[2] # nil => (call.err # nil /\ call.ret = AbsPath(<<>>))
        /\ call.err = nil =>
               /\ filepath_IsAbs(String(call.ret))
               /\ String(call.ret) = Lookup(fs, wd, String(call.recv), TRUE).path

\* C19: no method changes the value it is called on, and no later change of
\* the working directory or of the filesystem does: a.String() stays what it
\* was, and what a method derives is a new value.
C19_NonDestructive ==
    [][(call'.op \in Methods \/ wd' # wd \/ fs' # fs) =>
           (cur' = cur /\ String(cur') = String(cur))]_vars

\* C19's case: Dir handed back another value than the one it was called on,
\* and the caller's value is still the receiver
C19_Witness ==
    /\ call.op = "Dir"
    /\ call.ret # call.recv
    /\ cur = call.recv
    /\ String(cur) = String(call.recv)

\* the values the three queries are asked of: the ones a caller can hold,
\* the zero value among them
Queried == Receivers \cup {cur, AbsPath(<<>>)}

\* C21: in one state of the filesystem and for every AbsPath a, exactly one of
\* (not a.Exists()), a.IsDir(), a.IsFile() holds: a.Exists() is a.IsDir() or
\* a.IsFile(), never both of these, and a.Stat() hands back a nil error iff
\* a.Exists() is true.
C21_QueriesPartition ==
    /\ \A a \in Queried :
           /\ Exists(a, fs, wd) = (IsDir(a, fs, wd) \/ IsFile(a, fs, wd))
           /\ ~(IsDir(a, fs, wd) /\ IsFile(a, fs, wd))
           /\ (Stat(a, fs, wd)[2] = nil) = Exists(a, fs, wd)
    /\ call.op = "Exists" =>
           call.ok = (IsDir(call.recv, fs, wd) \/ IsFile(call.recv, fs, wd))
    /\ call.op = "IsDir" =>
           (call.ok => Exists(call.recv, fs, wd) /\ ~IsFile(call.recv, fs, wd))
    /\ call.op = "IsFile" =>
           (call.ok => Exists(call.recv, fs, wd) /\ ~IsDir(call.recv, fs, wd))
    /\ call.op = "Stat" => (call.err = nil) = Exists(call.recv, fs, wd)

\* C21's case: all three outcomes are there in one state of the filesystem:
\* IsFile answered true for a file, a symbolic link beside it leads to a
\* directory, and the zero value does not exist
C21_Witness ==
    /\ call.op = "IsFile"
    /\ call.ok
    /\ fs[String(call.recv)].kind = "file"
    /\ \E d \in Queried : IsDir(d, fs, wd) /\ ~IsFile(d, fs, wd)
    /\ \E n \in Queried :
           ~Exists(n, fs, wd) /\ ~IsDir(n, fs, wd) /\ ~IsFile(n, fs, wd)

=============================================================================
